---------------------------- MODULE Spec2Model ----------------------------
(***************************************************************************)
(* Model of src/python-script.py: the EcommerceDataProcessor, its fetchers, *)
(* report builders, the Google Sheets export and run_full_pipeline.         *)
(*                                                                          *)
(* Conventions                                                              *)
(*  - a date string "YYYY-MM-DD" is the triple <<y, m, d>> of its fields;   *)
(*    the string comparisons of the code (data['date'] >= start_date) are   *)
(*    the lexicographic order of the triples, which is what comparing the   *)
(*    zero-padded strings character by character gives;                     *)
(*  - money is counted in pence (149.99 is 14999), so sums are exact;       *)
(*  - a DataFrame is the sequence of its rows; the DataFrame built from no  *)
(*    rows, pd.DataFrame([]), has no columns and is the empty sequence;     *)
(*  - a Python exception is the outcome "raise" of the operation.           *)
(***************************************************************************)
EXTENDS Integers, Sequences, FiniteSets, TLC

(***************************************************************************)
(* Calendar: datetime.strptime, timedelta arithmetic and strftime, as the   *)
(* proleptic Gregorian ordinal arithmetic of Python's datetime.             *)
(***************************************************************************)
IsLeap(y) ==
    (y % 4 = 0) /\ ((y % 100 # 0) \/ (y % 400 = 0))

DaysInMonth(y, m) ==
    IF m = 2 THEN (IF IsLeap(y) THEN 29 ELSE 28)
    ELSE IF m \in {4, 6, 9, 11} THEN 30 ELSE 31

\* _DAYS_BEFORE_MONTH of a common year
DaysBeforeMonthCommon(m) ==
    <<0, 31, 59, 90, 120, 151, 181, 212, 243, 273, 304, 334>>[m]

DaysBeforeMonth(y, m) ==
    DaysBeforeMonthCommon(m) + (IF m > 2 /\ IsLeap(y) THEN 1 ELSE 0)

DaysBeforeYear(y) ==
    (y - 1) * 365 + ((y - 1) \div 4) - ((y - 1) \div 100) + ((y - 1) \div 400)

\* the date a string of the form YYYY-MM-DD names, if any
IsCalendarDate(dt) ==
    /\ dt[2] \in 1..12
    /\ dt[3] >= 1
    /\ dt[3] <= DaysInMonth(dt[1], dt[2])

\* datetime.strptime(s, "%Y-%m-%d") followed by toordinal()
ToOrdinal(dt) ==
    DaysBeforeYear(dt[1]) + DaysBeforeMonth(dt[1], dt[2]) + dt[3]

\* (datetime.fromordinal(n)).strftime("%Y-%m-%d"): the ord2ymd algorithm
FromOrdinal(n) ==
    LET n0   == n - 1
        n400 == n0 \div 146097
        r400 == n0 % 146097
        n100 == r400 \div 36524
        r100 == r400 % 36524
        n4   == r100 \div 1461
        r4   == r100 % 1461
        n1   == r4 \div 365
        r1   == r4 % 365
        year == n400 * 400 + 1 + n100 * 100 + n4 * 4 + n1
    IN  IF n1 = 4 \/ n100 = 4
        THEN <<year - 1, 12, 31>>
        ELSE LET leap  == (n1 = 3) /\ ((n4 # 24) \/ (n100 = 3))
                 guess == (r1 + 50) \div 32
                 prec  == DaysBeforeMonthCommon(guess)
                              + (IF guess > 2 /\ leap THEN 1 ELSE 0)
                 month == IF prec > r1 THEN guess - 1 ELSE guess
                 before == DaysBeforeMonthCommon(month)
                              + (IF month > 2 /\ leap THEN 1 ELSE 0)
             IN  <<year, month, r1 - before + 1>>

\* (strptime(s) - timedelta(days=k)).strftime(...)
MinusDays(dt, k) ==
    FromOrdinal(ToOrdinal(dt) - k)

\* s1 <= s2 on date strings
DateLE(a, b) ==
    \/ a[1] < b[1]
    \/ a[1] = b[1] /\ a[2] < b[2]
    \/ a[1] = b[1] /\ a[2] = b[2] /\ a[3] <= b[3]

(***************************************************************************)
(* Bounds of the model.                                                     *)
(***************************************************************************)
\* largest quantity of one sales record
MaxQty == 5
\* most records of one fetched dataset
MaxRecords == 2
\* most datasets held in shopify_data
MaxShops == 2

(***************************************************************************)
(* State.                                                                   *)
(***************************************************************************)
VARIABLES
    credentials,   \* the dict given to __init__: which keys it holds
    amazon_data,   \* self.amazon_data: None or a DataFrame
    shopify_data,  \* self.shopify_data: list of DataFrames
    sku_mapping,   \* self.sku_mapping: None or the mapping's product names
    tabs,          \* the destination spreadsheet: the state of each tab
    pc,            \* where run_full_pipeline stands ("Idle": no run)
    run,           \* the run in progress: arguments, locals, what it did
    weekly,        \* the last call of generate_weekly_sales_report
    last_export,   \* the last call of export_to_google_sheets
    fetched,       \* the shop_url behind each element of shopify_data
    last_fetch,    \* the last call of a fetch method outside a run
    sales_call,    \* the last calls of calculate_sales on one dataset
    sales_rate,    \* the last call of generate_sales_rate_report
    dashboard      \* the last call of create_dashboard_data

processor == <<credentials, amazon_data, shopify_data, sku_mapping>>
pipeline == <<pc, run>>
exports == <<last_export>>
fetches == <<fetched, last_fetch>>
reports == <<sales_call, sales_rate, dashboard>>
vars == <<processor, tabs, pipeline, weekly, exports, fetches, reports>>

None == [isNone |-> TRUE, df |-> <<>>]
Some(v) == [isNone |-> FALSE, df |-> v]

(***************************************************************************)
(* Sales records and DataFrames.                                            *)
(***************************************************************************)
\* a row whose total is the unit price, whatever the quantity
Row_unitTotal(date, name, quantity, price) ==
    [date |-> date, product_name |-> name, quantity |-> quantity,
     price |-> price, total |-> price]

\* the row dict of lines 186-194, 234-242 and 293-301 (order_id, asin and
\* sku are read by no report)
Row(date, name, quantity, price) ==
    [date |-> date, product_name |-> name, quantity |-> quantity,
     price |-> price, total |-> quantity * price]

\* df.columns: a DataFrame built from no rows has no columns
Columns(df) ==
    IF df = <<>> THEN {}
    ELSE {"date", "product_name", "quantity", "price", "total"}

RECURSIVE SumTotal(_)
\* filtered['total'].sum()
SumTotal(rows) ==
    IF rows = <<>> THEN 0 ELSE Head(rows).total + SumTotal(Tail(rows))

\* product names, as sequences of characters
sAdvancedBundle ==
    <<"A","d","v","a","n","c","e","d"," ","B","u","n","d","l","e">>
sStandard == <<"S","t","a","n","d","a","r","d">>
sBasic == <<"B","a","s","i","c">>
sBasicPlusBundle == sBasic \o <<"+"," ","B","u","n","d","l","e">>
sAdvancedOG == <<"A","d","v","a","n","c","e","d"," ","O","G">>
sAdvancedPL == <<"A","d","v","a","n","c","e","d"," ","P","L">>

\* amazon_products of generate_mock_amazon_data, prices in pence
AmazonProducts ==
    <<[name |-> sAdvancedOG, price |-> 14999],
      [name |-> sAdvancedPL, price |-> 16999],
      [name |-> sStandard, price |-> 9999],
      [name |-> sBasic, price |-> 4999]>>

(***************************************************************************)
(* generate_weekly_sales_report.                                            *)
(***************************************************************************)
\* the periods of lines 427-448, each a pair <<start, end>> of date strings
PeriodWindows(ws, we) ==
    [current      |-> <<ws, we>>,
     prior_week   |-> <<MinusDays(ws, 7), MinusDays(we, 7)>>,
     prior_year   |-> <<MinusDays(ws, 365), MinusDays(we, 365)>>,
     last_4_weeks |-> <<MinusDays(ws, 28), we>>,
     ytd          |-> <<<<ws[1], 1, 1>>, we>>,
     prior_ytd    |-> <<<<ws[1] - 1, 1, 1>>, <<ws[1] - 1, we[2], we[3]>>>>]

\* a filter that leaves out the records dated on the end of the window
InWindow_openEnd(r, w) ==
    DateLE(w[1], r.date) /\ DateLE(r.date, w[2]) /\ r.date # w[2]

\* data[(data['date'] >= start_date) & (data['date'] <= end_date)]
InWindow(r, w) ==
    DateLE(w[1], r.date) /\ DateLE(r.date, w[2])

\* calculate_sales(data, start_date, end_date)
calculate_sales(data, w) ==
    IF {"date", "total"} \subseteq Columns(data)
    THEN SumTotal(SelectSeq(data, LAMBDA r : InWindow(r, w)))
    ELSE 0

NoSales == [called |-> FALSE, data |-> <<>>, a |-> <<>>, b |-> <<>>,
            sum_a |-> 0, sum_b |-> 0, sum_u |-> 0]

\* calculate_sales on one dataset for the windows a, b and the window from
\* the start of a to the end of b
SalesCall(data, a, b) ==
    [called |-> TRUE, data |-> data, a |-> a, b |-> b,
     sum_a |-> calculate_sales(data, a),
     sum_b |-> calculate_sales(data, b),
     sum_u |-> calculate_sales(data, <<a[1], b[2]>>)]

RECURSIVE GCD(_, _)
GCD(a, b) ==
    IF b = 0 THEN a ELSE GCD(b, a % b)

Abs(a) ==
    IF a < 0 THEN -a ELSE a

\* the value of a / b: a fraction in lowest terms with a positive denominator
TrueDiv(a, b) ==
    LET g == GCD(Abs(a), Abs(b))
        s == IF b < 0 THEN -1 ELSE 1
    IN  IF b = 0 THEN [err |-> TRUE, num |-> 0, den |-> 0]
        ELSE [err |-> FALSE, num |-> s * (a \div g), den |-> s * (b \div g)]

\* the int 0 of the else branch
Zero == [err |-> FALSE, num |-> 0, den |-> 1]

\* growth when the guard takes the current total for the prior one
Growth_unguarded(cur, prior) ==
    TrueDiv(cur - prior, prior)

\* growth scaled to a percentage
Growth_percent(cur, prior) ==
    IF prior > 0 THEN TrueDiv(100 * (cur - prior), prior) ELSE Zero

\* (cur - prior) / prior if prior > 0 else 0
Growth(cur, prior) ==
    IF prior > 0 THEN TrueDiv(cur - prior, prior) ELSE Zero

\* f"£{x:.2f}": the amount in pence behind the currency symbol
Money(x) ==
    <<"£", x>>

\* one row of report_data for the dataset of one platform
PlatformRow(platform, data, p) ==
    LET cur  == calculate_sales(data, p.current)
        pw   == calculate_sales(data, p.prior_week)
        py   == calculate_sales(data, p.prior_year)
        l4   == calculate_sales(data, p.last_4_weeks)
        ytd  == calculate_sales(data, p.ytd)
        pytd == calculate_sales(data, p.prior_ytd)
    IN  [Platform  |-> platform,
         LastWeek  |-> Money(cur),
         PriorWeek |-> Money(pw),
         PriorYear |-> Money(py),
         Last4Weeks |-> Money(l4),
         YTD       |-> Money(ytd),
         PriorYTD  |-> Money(pytd),
         WOW       |-> Growth(cur, pw),
         YOY       |-> Growth(cur, py),
         YOYYTD    |-> Growth(ytd, pytd)]

\* report_data: the AMAZON row, then one row per element of shopify_data
WeeklyRows(amazon, shops, p) ==
    <<PlatformRow(<<"AMAZON">>, amazon, p)>>
    \o [i \in 1..Len(shops) |-> PlatformRow(<<"SHOPIFY", i>>, shops[i], p)]

\* whether the body raises: no data loaded, an argument strptime rejects, or
\* a division by zero
WeeklyRaises(amazon, shops, ws, we) ==
    \/ amazon.isNone
    \/ Len(shops) = 0
    \/ ~IsCalendarDate(ws)
    \/ ~IsCalendarDate(we)
    \/ LET rows == WeeklyRows(amazon.df, shops, PeriodWindows(ws, we))
       IN  \E i \in 1..Len(rows) :
              rows[i].WOW.err \/ rows[i].YOY.err \/ rows[i].YOYYTD.err

NoReport == [called |-> FALSE, raised |-> FALSE, loaded |-> FALSE,
             amazon |-> <<>>, shops |-> <<>>, anchor |-> <<>>,
             periods |-> <<>>, rows |-> <<>>]

\* the outcome of generate_weekly_sales_report(ws, we), with the data it
\* was called on
WeeklyOutcome(amazon, shops, ws, we) ==
    LET call == [NoReport EXCEPT
                    !.called = TRUE,
                    !.loaded = ~amazon.isNone /\ Len(shops) > 0,
                    !.amazon = amazon.df, !.shops = shops,
                    !.anchor = <<ws, we>>]
    IN  IF WeeklyRaises(amazon, shops, ws, we)
        THEN [call EXCEPT !.raised = TRUE]
        ELSE [call EXCEPT
                 !.periods = PeriodWindows(ws, we),
                 !.rows = WeeklyRows(amazon.df, shops,
                                     PeriodWindows(ws, we))]

(***************************************************************************)
(* generate_sales_rate_report.  A product name is the sequence of its       *)
(* characters; Series.str.contains(product) searches the name for the       *)
(* product read as a regular expression, in which a '+' repeats the         *)
(* character before it one or more times.                                   *)
(***************************************************************************)
\* the default list of lines 364-369
DefaultProducts ==
    <<sAdvancedBundle, sStandard, sBasic, sBasicPlusBundle>>

RECURSIVE RegexTokens(_)
\* the pattern as literals, each with or without a '+' behind it
RegexTokens(pat) ==
    IF pat = <<>> THEN <<>>
    ELSE IF Len(pat) >= 2 /\ pat[2] = "+"
         THEN <<[ch |-> pat[1], plus |-> TRUE]>>
                  \o RegexTokens(SubSeq(pat, 3, Len(pat)))
         ELSE <<[ch |-> pat[1], plus |-> FALSE]>> \o RegexTokens(Tail(pat))

RECURSIVE MatchAt(_, _, _)
\* whether the tokens match the name from position i on
MatchAt(toks, name, i) ==
    IF toks = <<>> THEN TRUE
    ELSE IF i > Len(name) \/ name[i] # Head(toks).ch THEN FALSE
    ELSE IF Head(toks).plus
         THEN \E k \in 1..(Len(name) - i + 1) :
                 /\ \A j \in i..(i + k - 1) : name[j] = Head(toks).ch
                 /\ MatchAt(Tail(toks), name, i + k)
         ELSE MatchAt(Tail(toks), name, i + 1)

\* name.str.contains(product): re.search(product, name)
StrContains(name, product) ==
    \/ product = <<>>
    \/ \E i \in 1..Len(name) : MatchAt(RegexTokens(product), name, i)

RECURSIVE SumQuantity(_)
\* ['quantity'].sum()
SumQuantity(rows) ==
    IF rows = <<>> THEN 0 ELSE Head(rows).quantity + SumQuantity(Tail(rows))

\* the quantity of one platform's column for one product (lines 377-379)
QtySold(df, product) ==
    IF "product_name" \in Columns(df)
    THEN SumQuantity(SelectSeq(df,
             LAMBDA r : StrContains(r.product_name, product)))
    ELSE 0

RECURSIVE Unique(_)
\* Series.unique(): first occurrences, in order
Unique(names) ==
    IF names = <<>> THEN <<>>
    ELSE LET rest == Unique(SubSeq(names, 1, Len(names) - 1))
             last == names[Len(names)]
         IN  IF \E i \in 1..Len(rest) : rest[i] = last
             THEN rest ELSE Append(rest, last)

\* the products of lines 360-369
ReportProducts(mapping) ==
    IF mapping.isNone THEN DefaultProducts ELSE Unique(mapping.df)

\* one row dict of product_data; the Shopify2 key is absent (<<>>) with
\* fewer than two storefront datasets
SalesRateRow(amazon, shops, product) ==
    [ProductName |-> product,
     QtyAmazon   |-> QtySold(amazon, product),
     QtyShopify1 |-> QtySold(shops[1], product),
     QtyShopify2 |-> IF Len(shops) > 1 THEN <<QtySold(shops[2], product)>>
                     ELSE <<>>]

\* generate_sales_rate_report raises when no data is loaded
SalesRateRaises(amazon, shops) ==
    amazon.isNone \/ Len(shops) = 0

\* product_df: one row per product
SalesRateRows(amazon, shops, mapping) ==
    [i \in 1..Len(ReportProducts(mapping)) |->
        SalesRateRow(amazon.df, shops, ReportProducts(mapping)[i])]

NoSalesRate == [called |-> FALSE, raised |-> FALSE, loaded |-> FALSE,
                range |-> <<>>, amazon |-> <<>>, shops |-> <<>>,
                products |-> <<>>, rows |-> <<>>]

\* the outcome of generate_sales_rate_report(start_date, end_date), with the
\* data it was called on; the two dates go into a frame that is dropped
\* (lines 352-354) and nowhere else
SalesRateOutcome(amazon, shops, mapping, start_date, end_date) ==
    LET call == [NoSalesRate EXCEPT !.called = TRUE,
                                    !.loaded = ~amazon.isNone
                                                   /\ Len(shops) > 0,
                                    !.range = <<start_date, end_date>>,
                                    !.amazon = amazon.df, !.shops = shops]
    IN  IF SalesRateRaises(amazon, shops)
        THEN [call EXCEPT !.raised = TRUE]
        ELSE [call EXCEPT !.products = ReportProducts(mapping),
                          !.rows = SalesRateRows(amazon, shops, mapping)]

(***************************************************************************)
(* create_dashboard_data: the totals of lines 602-612.                      *)
(***************************************************************************)
\* df['total'].sum() if 'total' in df.columns else 0
TotalOf(df) ==
    IF "total" \in Columns(df) THEN SumTotal(df) ELSE 0

\* a builder that reads the total column of every dataset without looking
\* whether it is there: a KeyError on a dataset with no columns
DashboardRaises_unguarded(amazon, shops) ==
    \/ amazon.isNone \/ Len(shops) = 0
    \/ "total" \notin Columns(amazon.df)
    \/ \E i \in 1..Len(shops) : "total" \notin Columns(shops[i])

\* create_dashboard_data raises when no data is loaded (lines 593-594)
DashboardRaises(amazon, shops) ==
    amazon.isNone \/ Len(shops) = 0

\* the metrics dict: the single row of dashboard_df
DashboardRow(amazon, shops) ==
    [ventes_amazon   |-> TotalOf(amazon),
     ventes_shopify1 |-> IF Len(shops) > 0 THEN TotalOf(shops[1]) ELSE 0,
     ventes_shopify2 |-> IF Len(shops) > 1 THEN TotalOf(shops[2]) ELSE 0,
     ventes_totales  |-> TotalOf(amazon)
                           + (IF Len(shops) > 0 THEN TotalOf(shops[1]) ELSE 0)
                           + (IF Len(shops) > 1 THEN TotalOf(shops[2]) ELSE 0)]

NoDashboard == [called |-> FALSE, raised |-> FALSE, loaded |-> FALSE,
                amazon |-> <<>>, shops |-> <<>>, row |-> <<>>]

\* the outcome of create_dashboard_data(), with the data it was called on
DashboardOutcome(amazon, shops) ==
    LET call == [NoDashboard EXCEPT !.called = TRUE,
                                    !.loaded = ~amazon.isNone
                                                   /\ Len(shops) > 0,
                                    !.amazon = amazon.df, !.shops = shops]
    IN  IF DashboardRaises(amazon, shops)
        THEN [call EXCEPT !.raised = TRUE]
        ELSE [call EXCEPT !.row = DashboardRow(amazon.df, shops)]

(***************************************************************************)
(* The spreadsheet sink (gspread) and export_to_google_sheets.              *)
(***************************************************************************)
\* the tabs of the destination spreadsheet the model follows
TabNames ==
    {"Sales Rate Report", "Weekly Sales Report", "Dashboard Data"}

NoTab == [exists |-> FALSE, cells |-> {}]
EmptyTab == [exists |-> TRUE, cells |-> {}]

\* a DataFrame to export: its column names and its rows of cells
Frame(columns, rows) ==
    [isNone |-> FALSE, columns |-> columns, rows |-> rows]

NoFrame == [isNone |-> TRUE, columns |-> <<>>, rows |-> <<>>]

\* [df.columns.tolist()] + df.values.tolist()
ValuesOf(df) ==
    <<df.columns>> \o df.rows

\* the cells a list of lists covers: <<row, column, value>>
CellsOf(values) ==
    UNION {{<<r, c, values[r][c]>> : c \in 1..Len(values[r])} :
              r \in 1..Len(values)}

\* worksheet.clear() left out
WorksheetClear_skipped(cells) ==
    cells

\* worksheet.clear(): no cell keeps a value
WorksheetClear(cells) ==
    {}

\* worksheet.update(values): the cells of the range the values cover, from
\* A1 on, take the values; every other cell keeps its own
WorksheetUpdate(cells, values) ==
    {x \in cells : ~\E y \in CellsOf(values) : y[1] = x[1] /\ y[2] = x[2]}
        \cup CellsOf(values)

\* the rows written below the last row that holds a value
WorksheetAppend(cells, values) ==
    LET last == IF cells = {} THEN 0
                ELSE CHOOSE r \in {x[1] : x \in cells} :
                         \A x \in cells : x[1] <= r
    IN  cells \cup {<<x[1] + last, x[2], x[3]>> : x \in CellsOf(values)}

\* the rows added below the old ones, with no clear before
TabAfterExport_append(cells, values) ==
    WorksheetAppend(cells, values)

\* lines 569-575: clear(), then update(values)
TabAfterExport(cells, values) ==
    WorksheetUpdate(WorksheetClear(cells), values)

\* the places where a call of the sink can fail; "none": every call succeeds
FailPoints ==
    {"none", "open", "lookup", "add", "clear", "update"}

\* a body whose update writes the header row before it fails
ExportBody_partialUpdate(tbs, df, tab, failAt) ==
    LET found   == tbs[tab].exists /\ failAt # "lookup"
        addFail == failAt = "add" \/ tbs[tab].exists
        opened  == [tbs EXCEPT ![tab] = IF found THEN @ ELSE EmptyTab]
        cleared == [opened EXCEPT ![tab].cells = WorksheetClear(@)]
        header  == [opened EXCEPT
                       ![tab].cells = CellsOf(<<ValuesOf(df)[1]>>)]
        updated == [opened EXCEPT
                       ![tab].cells = TabAfterExport(@, ValuesOf(df))]
    IN  IF failAt = "open" THEN [exc |-> TRUE, tabs |-> tbs]
        ELSE IF ~found /\ addFail THEN [exc |-> TRUE, tabs |-> tbs]
        ELSE IF failAt = "clear" THEN [exc |-> TRUE, tabs |-> opened]
        ELSE IF df.isNone THEN [exc |-> TRUE, tabs |-> cleared]
        ELSE IF failAt = "update" THEN [exc |-> TRUE, tabs |-> header]
        ELSE [exc |-> FALSE, tabs |-> updated]

\* the try body of lines 559-578: whether it raised and the tabs it leaves.
\* sheet.worksheet(name) raises when the tab is missing or the call fails,
\* and the bare except then adds the tab, which the sink refuses for a
\* title it already has
ExportBody(tbs, df, tab, failAt) ==
    LET found   == tbs[tab].exists /\ failAt # "lookup"
        addFail == failAt = "add" \/ tbs[tab].exists
        opened  == [tbs EXCEPT ![tab] = IF found THEN @ ELSE EmptyTab]
        cleared == [opened EXCEPT ![tab].cells = WorksheetClear(@)]
        updated == [opened EXCEPT
                       ![tab].cells = TabAfterExport(@, ValuesOf(df))]
    IN  IF failAt = "open" THEN [exc |-> TRUE, tabs |-> tbs]
        ELSE IF ~found /\ addFail THEN [exc |-> TRUE, tabs |-> tbs]
        ELSE IF failAt = "clear" THEN [exc |-> TRUE, tabs |-> opened]
        ELSE IF df.isNone \/ failAt = "update"
             THEN [exc |-> TRUE, tabs |-> cleared]
        ELSE [exc |-> FALSE, tabs |-> updated]

\* the handler logs and raises again, as the other methods do
ExportOutcome_reraise(tbs, df, tab, failAt) ==
    LET b == ExportBody(tbs, df, tab, failAt)
    IN  [ret |-> ~b.exc, raised |-> b.exc, tabs |-> b.tabs]

\* export_to_google_sheets(df, sheet_id, worksheet_name): True after the
\* body, False from the handler of lines 580-582
ExportOutcome(tbs, df, tab, failAt) ==
    LET b == ExportBody(tbs, df, tab, failAt)
    IN  [ret |-> ~b.exc, raised |-> FALSE, tabs |-> b.tabs]

NoExport == [called |-> FALSE, tab |-> "", df |-> NoFrame, failAt |-> "none",
             before |-> NoTab, ret |-> FALSE, raised |-> FALSE]

(***************************************************************************)
(* The cells of the three reports, as df.values.tolist() gives them.        *)
(***************************************************************************)
CStr(v) == <<"str", v>>
CInt(v) == <<"int", v>>
CName(v) == <<"name", v>>
CPlatform(v) == <<"platform", v>>
CMoney(v) == <<"money", v[2]>>
CRatio(v) == <<"ratio", v.num, v.den>>

WeeklyFrame(rows) ==
    Frame(<<CStr("Platform"), CStr("Last week"), CStr("Prior Week"),
            CStr("Prior Year"), CStr("Last 4 weeks"), CStr("YTD"),
            CStr("Prior YTD"), CStr("WOW"), CStr("YOY"), CStr("YOY YTD")>>,
          [i \in 1..Len(rows) |->
              <<CPlatform(rows[i].Platform), CMoney(rows[i].LastWeek),
                CMoney(rows[i].PriorWeek), CMoney(rows[i].PriorYear),
                CMoney(rows[i].Last4Weeks), CMoney(rows[i].YTD),
                CMoney(rows[i].PriorYTD), CRatio(rows[i].WOW),
                CRatio(rows[i].YOY), CRatio(rows[i].YOYYTD)>>])

\* pd.DataFrame(product_data): no columns when there is no product
SalesRateFrame(rows) ==
    IF rows = <<>> THEN Frame(<<>>, <<>>)
    ELSE Frame(<<CStr("Product Name"), CStr("Amazon Product"),
                 CStr("Amazon ASIN"), CStr("QTY Sold (Amazon)"),
                 CStr("Shopify SKU"), CStr("QTY Sold (Shopify1)")>>
                 \o (IF rows[1].QtyShopify2 = <<>> THEN <<>>
                     ELSE <<CStr("QTY Sold (Shopify2)")>>),
               [i \in 1..Len(rows) |->
                   <<CName(rows[i].ProductName), CName(rows[i].ProductName),
                     CStr(""), CInt(rows[i].QtyAmazon),
                     CName(rows[i].ProductName), CInt(rows[i].QtyShopify1)>>
                   \o [j \in 1..Len(rows[i].QtyShopify2) |->
                          CInt(rows[i].QtyShopify2[j])]])

\* pd.DataFrame([metrics]); the time stamp and the two lists (top products,
\* daily sales) are cells whose content the model does not follow
DashboardFrame(row) ==
    Frame(<<CStr("derniere_mise_a_jour"), CStr("ventes_amazon"),
            CStr("ventes_shopify1"), CStr("ventes_shopify2"),
            CStr("ventes_totales"), CStr("top_produits"),
            CStr("ventes_quotidiennes")>>,
          <<<<CStr("now"), CInt(row.ventes_amazon),
              CInt(row.ventes_shopify1), CInt(row.ventes_shopify2),
              CInt(row.ventes_totales), CStr("list"), CStr("list")>>>>)

(***************************************************************************)
(* load_sku_mapping, fetch_amazon_data, fetch_shopify_data.                 *)
(***************************************************************************)
\* the two storefronts of the pipeline (lines 710-711)
ShopUrls == <<"shop1.myshopify.com", "shop2.myshopify.com">>

\* the storefront a caller fetches as the i-th: the two in turn
ShopOf(i) ==
    ShopUrls[((i - 1) % Len(ShopUrls)) + 1]

\* the parameters of fetch_shopify_data after self (line 198)
FetchShopifyParams == 3
\* the arguments run_full_pipeline passes to it (lines 710-711)
PipelineFetchArgs == 4

\* load_sku_mapping(sheet_id): sheet is what the mapping sheet answers,
\* [ok, products]; a failure is logged and raised again
LoadOutcome(mapping, sheet) ==
    IF sheet.ok THEN [raised |-> FALSE, sku_mapping |-> Some(sheet.products)]
    ELSE [raised |-> TRUE, sku_mapping |-> mapping]

\* fetch_amazon_data(start_date, end_date): mock is what
\* generate_mock_amazon_data returns; the KeyError of credentials without
\* the amazon keys is raised before anything is assigned
AmazonFetchOutcome(creds, amazon, mock) ==
    IF creds.amazon THEN [raised |-> FALSE, amazon_data |-> Some(mock)]
    ELSE [raised |-> TRUE, amazon_data |-> amazon]

\* a fetch that appends its dataset before it looks at the HTTP status
ShopifyFetchOutcome_appendFirst(nargs, creds, shops, httpOk, rows) ==
    IF nargs # FetchShopifyParams \/ creds.shopify # "dict"
    THEN [raised |-> TRUE, http |-> FALSE, shopify_data |-> shops]
    ELSE [raised |-> ~httpOk, http |-> ~httpOk,
          shopify_data |-> Append(shops, rows)]

\* a call of fetch_shopify_data with nargs arguments: the call itself
\* raises TypeError when they are not its parameters; in the body the
\* credentials lookup (a TypeError when credentials["shopify"] is the list
\* load_credentials builds), the HTTP call and the conversion of the
\* response raise before the append; http tells whether the HTTP call failed
ShopifyFetchOutcome(nargs, creds, shops, httpOk, rows) ==
    IF nargs # FetchShopifyParams
    THEN [raised |-> TRUE, http |-> FALSE, shopify_data |-> shops]
    ELSE IF creds.shopify # "dict"
    THEN [raised |-> TRUE, http |-> FALSE, shopify_data |-> shops]
    ELSE IF ~httpOk
    THEN [raised |-> TRUE, http |-> TRUE, shopify_data |-> shops]
    ELSE [raised |-> FALSE, http |-> FALSE,
          shopify_data |-> Append(shops, rows)]

(***************************************************************************)
(* run_full_pipeline, one stage at a time.  st is the state the stage       *)
(* reads and writes: [amazon_data, shopify_data, sku_mapping, tabs, run];   *)
(* a stage gives [raised, st].                                              *)
(***************************************************************************)
NoReports == [sales |-> NoFrame, weekly |-> NoFrame, dashboard |-> NoFrame]

NoRun == [start |-> <<>>, end |-> <<>>, stages |-> <<>>, exports |-> <<>>,
          failedAt |-> "none", mapUnavailable |-> FALSE,
          collabFailed |-> FALSE, result |-> "none", reports |-> NoReports,
          tabs0 |-> <<>>]

\* Etape 1 (line 704)
StageLoadMapping(st, sheet) ==
    LET o == LoadOutcome(st.sku_mapping, sheet)
    IN  [raised |-> o.raised,
         st |-> [st EXCEPT !.sku_mapping = o.sku_mapping,
                           !.run.mapUnavailable = @ \/ ~sheet.ok,
                           !.run.collabFailed = @ \/ ~sheet.ok]]

\* Etape 2 (line 707)
StageFetchMarketplace(st, creds, mock) ==
    LET o == AmazonFetchOutcome(creds, st.amazon_data, mock)
    IN  [raised |-> o.raised,
         st |-> [st EXCEPT !.amazon_data = o.amazon_data,
                           !.run.collabFailed = @ \/ o.raised]]

\* Etape 3 (lines 710-711): the two calls, the second after the first
\* returned
StageFetchStorefronts(st, creds, shop1, shop2) ==
    LET o1 == ShopifyFetchOutcome(PipelineFetchArgs, creds, st.shopify_data,
                                  shop1.ok, shop1.rows)
        o2 == ShopifyFetchOutcome(PipelineFetchArgs, creds, o1.shopify_data,
                                  shop2.ok, shop2.rows)
    IN  IF o1.raised
        THEN [raised |-> TRUE,
              st |-> [st EXCEPT !.shopify_data = o1.shopify_data,
                                !.run.collabFailed = @ \/ o1.http]]
        ELSE [raised |-> o2.raised,
              st |-> [st EXCEPT !.shopify_data = o2.shopify_data,
                                !.run.collabFailed = @ \/ o2.http]]

\* Etapes 4-6 (lines 714-722): the three builders, the weekly one on the
\* seven days that end on end_date
StageBuildReports(st) ==
    LET week_start == MinusDays(st.run.end, 6)
        w == WeeklyOutcome(st.amazon_data, st.shopify_data, week_start,
                           st.run.end)
    IN  IF \/ SalesRateRaises(st.amazon_data, st.shopify_data)
           \/ ~IsCalendarDate(st.run.end)
           \/ w.raised
           \/ DashboardRaises(st.amazon_data, st.shopify_data)
        THEN [raised |-> TRUE, st |-> st]
        ELSE [raised |-> FALSE,
              st |-> [st EXCEPT !.run.reports =
                  [sales |-> SalesRateFrame(SalesRateRows(st.amazon_data,
                                 st.shopify_data, st.sku_mapping)),
                   weekly |-> WeeklyFrame(w.rows),
                   dashboard |-> DashboardFrame(DashboardRow(
                                 st.amazon_data.df, st.shopify_data))]]]

\* one export of Etape 7 on the state o that the exports before it left
PublishOne(o, df, tab, failAt) ==
    IF o.raised THEN o
    ELSE LET e == ExportOutcome(o.st.tabs, df, tab, failAt)
         IN  [raised |-> e.raised,
              st |-> [o.st EXCEPT
                         !.tabs = e.tabs,
                         !.run.exports = Append(@, [tab |-> tab,
                                                    ret |-> e.ret]),
                         !.run.collabFailed = @ \/ (failAt # "none")]]

\* Etape 7 (lines 725-727): the three exports; sink[i] is where the sink
\* fails during the i-th
StagePublish(st, sink) ==
    LET o0 == [raised |-> FALSE, st |-> st]
        o1 == PublishOne(o0, st.run.reports.sales, "Sales Rate Report",
                         sink[1])
        o2 == PublishOne(o1, st.run.reports.weekly, "Weekly Sales Report",
                         sink[2])
    IN  PublishOne(o2, st.run.reports.dashboard, "Dashboard Data", sink[3])

\* the stage that follows a stage that returned
NextStage(stage) ==
    CASE stage = "LoadMapping" -> "FetchMarketplace"
      [] stage = "FetchMarketplace" -> "FetchStorefronts"
      [] stage = "FetchStorefronts" -> "BuildReports"
      [] stage = "BuildReports" -> "Publish"
      [] stage = "Publish" -> "Done"

\* a handler that logs the error and goes on with the next stage
PipelineAfter_swallow(stage, raised) ==
    NextStage(stage)

\* the try of lines 700-734: an exception of any stage leaves for the
\* handler, which returns False
PipelineAfter(stage, raised) ==
    IF raised THEN "Failed" ELSE NextStage(stage)

\* what run_full_pipeline returns once it is over
PipelineResult(stage) ==
    CASE stage = "Done" -> "True"
      [] stage = "Failed" -> "False"
      [] OTHER -> "none"

Stages ==
    {"LoadMapping", "FetchMarketplace", "FetchStorefronts", "BuildReports",
     "Publish"}

\* the stage at pc on st; the unused inputs of a stage are ignored
StageOutcome(stage, st, creds, sheet, mock, shop1, shop2, sink) ==
    CASE stage = "LoadMapping" -> StageLoadMapping(st, sheet)
      [] stage = "FetchMarketplace" -> StageFetchMarketplace(st, creds, mock)
      [] stage = "FetchStorefronts" ->
             StageFetchStorefronts(st, creds, shop1, shop2)
      [] stage = "BuildReports" -> StageBuildReports(st)
      [] stage = "Publish" -> StagePublish(st, sink)

\* the stage at pc: one step of run_full_pipeline
RunFullPipelineStep(sheet, mock, shop1, shop2, sink) ==
    /\ pc \in Stages
    /\ LET o == StageOutcome(pc,
                    [amazon_data |-> amazon_data,
                     shopify_data |-> shopify_data,
                     sku_mapping |-> sku_mapping, tabs |-> tabs,
                     run |-> run],
                    credentials, sheet, mock, shop1, shop2, sink)
           next == PipelineAfter(pc, o.raised)
       IN  /\ pc' = next
           /\ amazon_data' = o.st.amazon_data
           /\ shopify_data' = o.st.shopify_data
           /\ sku_mapping' = o.st.sku_mapping
           /\ tabs' = o.st.tabs
           /\ run' = [o.st.run EXCEPT
                         !.stages = Append(@, next),
                         !.failedAt = IF o.raised /\ @ = "none"
                                      THEN pc ELSE @,
                         !.result = PipelineResult(next)]
           /\ fetched' = fetched \o SubSeq(ShopUrls, 1,
                              Len(o.st.shopify_data) - Len(shopify_data))
    /\ UNCHANGED <<credentials, weekly, exports, last_fetch, reports>>

\* run_full_pipeline(start_date, end_date, ...) is called
StartRun(start, end) ==
    /\ pc = "Idle"
    /\ Len(shopify_data) <= MaxShops
    /\ pc' = "LoadMapping"
    /\ run' = [NoRun EXCEPT !.start = start, !.end = end,
                            !.stages = <<"LoadMapping">>, !.tabs0 = tabs]
    /\ UNCHANGED <<processor, tabs, weekly, exports, fetches, reports>>

\* run_full_pipeline has returned
EndRun ==
    /\ pc \in {"Done", "Failed"}
    /\ pc' = "Idle"
    /\ run' = NoRun
    /\ UNCHANGED <<processor, tabs, weekly, exports, fetches, reports>>

(***************************************************************************)
(* The methods, called on the processor outside a run.                      *)
(***************************************************************************)
\* no fetch made yet
NoFetch == [called |-> FALSE, channel |-> "", raised |-> FALSE,
            returned |-> <<>>, amazon |-> None, shops |-> <<>>,
            mapping |-> None]

\* a call of a fetch method: the dataset it returned (none when it raised)
\* and what the processor held when it was made
FetchCall(channel, raised, df, amazon, shops, mapping) ==
    [called |-> TRUE, channel |-> channel, raised |-> raised,
     returned |-> IF raised THEN <<>> ELSE df,
     amazon |-> amazon, shops |-> shops, mapping |-> mapping]

LoadSkuMapping(sheet) ==
    /\ pc = "Idle"
    /\ sku_mapping' = LoadOutcome(sku_mapping, sheet).sku_mapping
    /\ UNCHANGED <<credentials, amazon_data, shopify_data, tabs, pipeline,
                   weekly, exports, fetches, reports>>

\* fetch_amazon_data(start_date, end_date)
FetchAmazonData(mock) ==
    /\ pc = "Idle"
    /\ LET o == AmazonFetchOutcome(credentials, amazon_data, mock)
       IN  /\ amazon_data' = o.amazon_data
           /\ last_fetch' = FetchCall("amazon", o.raised, mock, amazon_data,
                                      shopify_data, sku_mapping)
    /\ UNCHANGED <<credentials, shopify_data, sku_mapping, tabs, pipeline,
                   weekly, exports, fetched, reports>>

\* fetch_shopify_data(shop_url, start_date, end_date)
FetchShopifyData(shop_url, httpOk, rows) ==
    /\ pc = "Idle"
    /\ LET o == ShopifyFetchOutcome(FetchShopifyParams, credentials,
                                    shopify_data, httpOk, rows)
       IN  /\ shopify_data' = o.shopify_data
           /\ fetched' = IF o.raised THEN fetched
                         ELSE Append(fetched, shop_url)
           /\ last_fetch' = FetchCall("shopify", o.raised, rows, amazon_data,
                                      shopify_data, sku_mapping)
    /\ UNCHANGED <<credentials, amazon_data, sku_mapping, tabs, pipeline,
                   weekly, exports, sales_call, sales_rate, dashboard>>

\* generate_weekly_sales_report(current_week_start, current_week_end)
GenerateWeeklySalesReport(ws, we) ==
    /\ pc = "Idle"
    /\ weekly' = WeeklyOutcome(amazon_data, shopify_data, ws, we)
    /\ UNCHANGED <<processor, tabs, pipeline, exports, fetches, reports>>

\* calculate_sales(data, start_date, end_date) of the weekly report, on one
\* dataset for two windows and the window that spans them
CalculateSales(data, a, b) ==
    /\ pc = "Idle"
    /\ sales_call' = SalesCall(data, a, b)
    /\ UNCHANGED <<processor, tabs, pipeline, weekly, exports, fetches,
                   sales_rate, dashboard>>

\* generate_sales_rate_report(start_date, end_date)
GenerateSalesRateReport(start_date, end_date) ==
    /\ pc = "Idle"
    /\ sales_rate' = SalesRateOutcome(amazon_data, shopify_data, sku_mapping,
                                      start_date, end_date)
    /\ UNCHANGED <<processor, tabs, pipeline, weekly, exports, fetches,
                   sales_call, dashboard>>

\* create_dashboard_data()
CreateDashboardData ==
    /\ pc = "Idle"
    /\ dashboard' = DashboardOutcome(amazon_data, shopify_data)
    /\ UNCHANGED <<processor, tabs, pipeline, weekly, exports, fetches,
                   sales_call, sales_rate>>

\* export_to_google_sheets(df, sheet_id, worksheet_name)
ExportToGoogleSheets(df, tab, failAt) ==
    /\ pc = "Idle"
    /\ LET o == ExportOutcome(tabs, df, tab, failAt)
       IN  /\ tabs' = o.tabs
           /\ last_export' = [called |-> TRUE, tab |-> tab, df |-> df,
                              failAt |-> failAt, before |-> tabs[tab],
                              ret |-> o.ret, raised |-> o.raised]
    /\ UNCHANGED <<processor, pipeline, weekly, fetches, reports>>

(***************************************************************************)
(* The inputs the model draws from.                                         *)
(***************************************************************************)
\* most data rows and most columns of an exported table, values of a cell
MaxRows == 1
MaxCols == 1
MaxFill == 1
\* days on each side of AnchorPivot for the end of an anchor week, and the
\* longest anchor in days beyond its first
AnchorPivot == <<2024, 1, 1>>
AnchorDays == 70
MaxSpan == 6

QtySet == (MaxQty - 1)..MaxQty

\* the sequences of at most MaxRecords rows of a set, dates increasing
Datasets(rowset) ==
    UNION {{d \in [1..n -> rowset] :
               \A i \in 1..(n - 1) :
                   DateLE(d[i].date, d[i + 1].date)
                       /\ d[i].date # d[i + 1].date} :
              n \in 0..MaxRecords}

\* rows generate_mock_amazon_data can draw on the given dates
AmazonRows(dates, products) ==
    {Row(d, AmazonProducts[p].name, q, AmazonProducts[p].price) :
        d \in dates, p \in products, q \in QtySet}

\* rows of a storefront response on the given dates
ShopifyRows(dates, names, prices) ==
    {Row(d, n, q, p) : d \in dates, n \in names, q \in {MaxQty},
                       p \in prices}

\* the arguments of the runs
RunRanges ==
    {<<<<2024, 2, 9>>, <<2024, 3, 10>>>>}

\* the anchor weeks of the weekly reports that are followed row by row
WeeklyAnchors ==
    {<<<<2024, 3, 4>>, <<2024, 3, 10>>>>, <<<<2023, 12, 28>>, <<2024, 1, 3>>>>}

\* dates in and around the windows of the first anchor
WeeklyDates ==
    {<<2024, 3, 4>>, <<2024, 3, 3>>, <<2023, 3, 6>>, <<2024, 1, 10>>,
     <<2023, 1, 10>>}

\* anchors of every length up to MaxSpan that end within AnchorDays of
\* AnchorPivot: they cross a year end and 29 February
WindowAnchors ==
    {<<MinusDays(FromOrdinal(n), k), FromOrdinal(n)>> :
        n \in (ToOrdinal(AnchorPivot) - AnchorDays)
                  ..(ToOrdinal(AnchorPivot) + AnchorDays),
        k \in 0..MaxSpan}

\* the dates of the records and of the windows given to calculate_sales:
\* consecutive days across the end of a month
SalesDates ==
    {<<2024, 2, 28>>, <<2024, 2, 29>>, <<2024, 3, 1>>, <<2024, 3, 2>>}

\* the windows given to calculate_sales, start after end included
SalesWindows ==
    SalesDates \X SalesDates

\* most datasets held in shopify_data when the reports are built on it:
\* one more than the storefronts of the pipeline
MaxFetched == 3

\* what the marketplace and a storefront hold for the reports: nothing, or
\* one record dated 4 March 2024
ReportAmazonData ==
    Datasets(AmazonRows({<<2024, 3, 4>>}, {4}))

ReportShopData ==
    {<<>>} \cup {<<r>> : r \in ShopifyRows({<<2024, 3, 4>>},
                              {sAdvancedBundle, sBasicPlusBundle}, {10000})}

\* the date ranges asked of generate_sales_rate_report: one that holds the
\* date of the records, one that ends before it
ReportRanges ==
    {<<<<2024, 3, 1>>, <<2024, 3, 10>>>>, <<<<2024, 2, 1>>, <<2024, 2, 10>>>>}

\* what the mapping sheet answers
MappingSheets ==
    {[ok |-> FALSE, products |-> <<>>],
     [ok |-> TRUE, products |-> <<sBasic, sStandard, sBasic>>]}

\* what a storefront answers
ShopAnswers ==
    {[ok |-> FALSE, rows |-> <<>>], [ok |-> TRUE, rows |-> <<>>]}
        \cup {[ok |-> TRUE, rows |-> <<r>>] :
                 r \in ShopifyRows({<<2024, 3, 4>>}, {sAdvancedBundle},
                                   {10000})}

\* tables to export: c columns and r rows of cells that all hold k
ReportFrames ==
    {Frame(<<>>, <<>>)}
        \cup {Frame([j \in 1..c |-> <<"col", j>>],
                    [i \in 1..r |-> [j \in 1..c |-> CInt(k)]]) :
                 c \in 1..MaxCols, r \in 0..MaxRows, k \in 1..MaxFill}

\* the tabs the exports of a caller go to
ExportTabs ==
    {"Sales Rate Report", "Weekly Sales Report"}

\* what a tab of the destination holds before the program runs: nothing (no
\* such tab) or the rows an earlier tool left, more than any table here
LegacyTab ==
    [exists |-> TRUE,
     cells |-> {<<r, c, CStr("old")>> :
                   r \in 1..(MaxRows + 2), c \in 1..(MaxCols + 1)}]

(***************************************************************************)
(* Specifications.                                                          *)
(***************************************************************************)
\* after __init__: nothing loaded, no run, no call made yet
Constructed ==
    /\ amazon_data = None
    /\ shopify_data = <<>>
    /\ sku_mapping = None
    /\ pc = "Idle"
    /\ run = NoRun
    /\ weekly = NoReport
    /\ last_export = NoExport
    /\ fetched = <<>>
    /\ last_fetch = NoFetch
    /\ sales_call = NoSales
    /\ sales_rate = NoSalesRate
    /\ dashboard = NoDashboard

\* the runs of the pipeline, with the loads and fetches a caller makes
\* between them
Init ==
    /\ Constructed
    /\ credentials \in [amazon : BOOLEAN, shopify : {"dict", "list"}]
    /\ tabs \in [TabNames -> {NoTab, LegacyTab}]

\* a step of the run, on what the collaborators answer at that stage
PipelineStep ==
    \E sheet \in (IF pc = "LoadMapping" THEN MappingSheets
                  ELSE {[ok |-> TRUE, products |-> <<>>]}),
       mock \in (IF pc = "FetchMarketplace"
                 THEN Datasets(AmazonRows({<<2024, 3, 4>>}, {4}))
                 ELSE {<<>>}),
       shop1 \in (IF pc = "FetchStorefronts" THEN ShopAnswers
                  ELSE {[ok |-> TRUE, rows |-> <<>>]}),
       shop2 \in (IF pc = "FetchStorefronts" THEN ShopAnswers
                  ELSE {[ok |-> TRUE, rows |-> <<>>]}),
       sink \in (IF pc = "Publish" THEN [1..3 -> FailPoints]
                 ELSE {[i \in 1..3 |-> "none"]}) :
       RunFullPipelineStep(sheet, mock, shop1, shop2, sink)

Next ==
    \/ \E r \in RunRanges : StartRun(r[1], r[2])
    \/ PipelineStep
    \/ EndRun
    \/ \E sheet \in MappingSheets : LoadSkuMapping(sheet)
    \/ \E mock \in Datasets(AmazonRows({<<2024, 3, 4>>}, {4})) :
          FetchAmazonData(mock)
    \/ /\ Len(shopify_data) < MaxShops
       /\ \E a \in ShopAnswers :
             FetchShopifyData(ShopOf(Len(shopify_data) + 1), a.ok, a.rows)

Spec == Init /\ [][Next]_vars

\* the exports a caller makes
InitPublish ==
    /\ Constructed
    /\ credentials = [amazon |-> TRUE, shopify |-> "dict"]
    /\ tabs \in {t \in [TabNames -> {NoTab, LegacyTab}] :
                   \A n \in TabNames \ ExportTabs : t[n] = NoTab}

NextPublish ==
    \E df \in ReportFrames, tab \in ExportTabs, failAt \in FailPoints :
        ExportToGoogleSheets(df, tab, failAt)

SpecPublish == InitPublish /\ [][NextPublish]_vars

\* weekly reports on fetched data: the marketplace fetched first and once,
\* and no fetch once a report is made
InitWeekly ==
    /\ Constructed
    /\ credentials = [amazon |-> TRUE, shopify |-> "dict"]
    /\ tabs = [t \in TabNames |-> NoTab]

NextWeekly ==
    \/ /\ amazon_data.isNone
       /\ \E mock \in Datasets(AmazonRows(WeeklyDates, {4})) :
             FetchAmazonData(mock)
    \/ /\ ~weekly.called
       /\ ~amazon_data.isNone
       /\ Len(shopify_data) < MaxShops
       /\ \E rows \in Datasets(ShopifyRows({<<2024, 3, 4>>, <<2024, 3, 3>>},
                                           {sAdvancedBundle}, {10000})) :
             FetchShopifyData(ShopOf(Len(shopify_data) + 1), TRUE, rows)
    \/ \E a \in WeeklyAnchors : GenerateWeeklySalesReport(a[1], a[2])

SpecWeekly == InitWeekly /\ [][NextWeekly]_vars

\* the periods of the weekly report over the anchors: one report on data
\* fetched once
NextWindows ==
    \/ /\ amazon_data.isNone
       /\ \E mock \in Datasets(AmazonRows({<<2024, 1, 1>>}, {4})) :
             FetchAmazonData(mock)
    \/ /\ ~weekly.called
       /\ Len(shopify_data) < MaxShops
       /\ FetchShopifyData(ShopOf(Len(shopify_data) + 1), TRUE, <<>>)
    \/ /\ ~weekly.called
       /\ \E a \in WindowAnchors : GenerateWeeklySalesReport(a[1], a[2])

SpecWindows == InitWeekly /\ [][NextWindows]_vars

\* the three report builders on fetched data: the mapping loaded or not,
\* the marketplace fetched first and once, the storefronts in turn, and no
\* load or fetch once a report is made
ReportMade ==
    weekly.called \/ sales_rate.called \/ dashboard.called

NextReports ==
    \/ /\ ~ReportMade /\ sku_mapping.isNone /\ amazon_data.isNone
       /\ \E sheet \in MappingSheets : LoadSkuMapping(sheet)
    \/ /\ ~ReportMade /\ amazon_data.isNone
       /\ \E mock \in ReportAmazonData : FetchAmazonData(mock)
    \/ /\ ~ReportMade /\ ~amazon_data.isNone
       /\ Len(shopify_data) < MaxFetched
       /\ \E rows \in ReportShopData :
             FetchShopifyData(ShopOf(Len(shopify_data) + 1), TRUE, rows)
    \/ /\ ~sales_rate.called
       /\ \E r \in ReportRanges : GenerateSalesRateReport(r[1], r[2])
    \/ /\ ~weekly.called
       /\ GenerateWeeklySalesReport(<<2024, 3, 4>>, <<2024, 3, 10>>)
    \/ /\ ~dashboard.called
       /\ CreateDashboardData

SpecReports == InitWeekly /\ [][NextReports]_vars

\* the channels of the weekly report: runs of the pipeline and fetches of
\* either storefront in any order, then a report
NextChannels ==
    \/ /\ ~weekly.called
       /\ \E r \in RunRanges : StartRun(r[1], r[2])
    \/ PipelineStep
    \/ EndRun
    \/ /\ ~weekly.called
       /\ \E mock \in Datasets(AmazonRows({<<2024, 3, 4>>}, {4})) :
             FetchAmazonData(mock)
    \/ /\ ~weekly.called
       /\ Len(shopify_data) < MaxShops
       /\ \E i \in 1..Len(ShopUrls), a \in ShopAnswers :
             FetchShopifyData(ShopUrls[i], a.ok, a.rows)
    \/ /\ ~weekly.called
       /\ GenerateWeeklySalesReport(<<2024, 3, 4>>, <<2024, 3, 10>>)

SpecChannels == InitWeekly /\ [][NextChannels]_vars

\* the fetches of a caller, with credentials of either shape, after the
\* mapping was loaded or not
InitFetch ==
    /\ Constructed
    /\ credentials \in [amazon : BOOLEAN, shopify : {"dict", "list"}]
    /\ tabs = [t \in TabNames |-> NoTab]

NextFetch ==
    \/ /\ ~last_fetch.called /\ sku_mapping.isNone
       /\ \E sheet \in MappingSheets : LoadSkuMapping(sheet)
    \/ \E mock \in Datasets(AmazonRows({<<2024, 3, 4>>}, {4})) :
          FetchAmazonData(mock)
    \/ /\ Len(shopify_data) < MaxShops
       /\ \E i \in 1..Len(ShopUrls), a \in ShopAnswers :
             FetchShopifyData(ShopUrls[i], a.ok, a.rows)

SpecFetch == InitFetch /\ [][NextFetch]_vars

\* calculate_sales on the datasets and windows over SalesDates, observed
\* once
NextSales ==
    /\ ~sales_call.called
    /\ \E data \in Datasets(AmazonRows(SalesDates, {4})),
          a \in SalesWindows, b \in SalesWindows :
           CalculateSales(data, a, b)

SpecSales == InitWeekly /\ [][NextSales]_vars

(***************************************************************************)
(* Properties of run_full_pipeline (specification Spec).                    *)
(***************************************************************************)
\* C1: in a run where a stage has failed, the run is over in Failed with
\* the return value False (nothing raised), it has made no call of
\* export_to_google_sheets, and every tab is as it was when the run began.
C1_FailedRunExportsNothing ==
    (pc # "Idle" /\ run.failedAt # "none") =>
        /\ pc = "Failed"
        /\ run.result = "False"
        /\ run.exports = <<>>
        /\ tabs = run.tabs0

\* a run that ended in Failed because the marketplace fetch raised
C1_Witness ==
    /\ pc = "Failed"
    /\ run.failedAt = "FetchMarketplace"
    /\ run.result = "False"
    /\ run.stages = <<"LoadMapping", "FetchMarketplace", "Failed">>

\* C2: a run that is over, of a processor whose credentials are complete,
\* in which no external collaborator failed has passed LoadMapping,
\* FetchMarketplace, FetchStorefronts, BuildReports and Publish in that
\* order, stands in Done and returned True.
C2_HealthyRunReturnsTrue ==
    (/\ pc \in {"Done", "Failed"}
     /\ credentials = [amazon |-> TRUE, shopify |-> "dict"]
     /\ ~run.collabFailed) =>
        /\ pc = "Done"
        /\ run.result = "True"
        /\ run.stages = <<"LoadMapping", "FetchMarketplace",
                          "FetchStorefronts", "BuildReports", "Publish",
                          "Done">>

\* C7: a run whose load of the SKU mapping found the mapping sheet
\* unavailable does not fail at LoadMapping: it goes on, with the built-in
\* product list as the products of the rate-of-sale report.
C7_MappingUnavailableIsNotFatal ==
    (pc # "Idle" /\ run.mapUnavailable) =>
        /\ run.failedAt # "LoadMapping"
        /\ ReportProducts(sku_mapping) = DefaultProducts

(***************************************************************************)
(* Properties of export_to_google_sheets (specification SpecPublish).       *)
(***************************************************************************)
\* whether a call of the sink failed during the export e: the open, the
\* lookup of a tab that exists (the tab is then added again, which the sink
\* refuses), the creation of a missing tab, the clear or the update
SinkFailed(e) ==
    \/ e.failAt \in {"open", "clear", "update"}
    \/ e.failAt = "lookup" /\ e.before.exists
    \/ e.failAt = "add" /\ ~e.before.exists

\* C4: a call of export_to_google_sheets raises nothing, and it returns
\* True exactly when no call of the sink failed.
C4_ExportNeverRaises ==
    last_export.called =>
        /\ ~last_export.raised
        /\ last_export.ret <=> ~SinkFailed(last_export)

\* an export that returned False because the update failed after the clear
C4_Witness ==
    /\ last_export.called
    /\ last_export.failAt = "update"
    /\ ~last_export.ret
    /\ ~last_export.raised

\* C5: after an export that returned True the tab exists and holds exactly
\* the header row and the data rows of the report, nothing else.
C5_TabHoldsExactlyTheReport ==
    (last_export.called /\ last_export.ret) =>
        /\ tabs[last_export.tab].exists
        /\ tabs[last_export.tab].cells = CellsOf(ValuesOf(last_export.df))

\* a successful export of a table with rows onto a tab that held values
\* outside the range the table covers
C5_Witness ==
    /\ last_export.called
    /\ last_export.ret
    /\ last_export.df.rows # <<>>
    /\ \E x \in last_export.before.cells :
          \A y \in CellsOf(ValuesOf(last_export.df)) :
              x[1] # y[1] \/ x[2] # y[2]

\* C6: a successful export of the report and tab of the successful export
\* just before it leaves the tab as that first export left it.
C6_PublishIdempotent ==
    [][(/\ last_export.called
        /\ last_export.ret
        /\ last_export'.ret
        /\ last_export'.tab = last_export.tab
        /\ last_export'.df = last_export.df)
           => tabs'[last_export.tab] = tabs[last_export.tab]]_vars

\* a successful export of a table with rows onto the tab that already held
\* exactly that table: the second of two such exports
C6_Witness ==
    /\ last_export.called
    /\ last_export.ret
    /\ last_export.df.rows # <<>>
    /\ last_export.before.exists
    /\ last_export.before.cells = CellsOf(ValuesOf(last_export.df))

(***************************************************************************)
(* Properties of generate_weekly_sales_report (specifications SpecWeekly    *)
(* and SpecWindows).                                                        *)
(***************************************************************************)
\* C8: a weekly report asked on loaded data is built without error, and in
\* each of its rows a ratio whose prior-period total is 0 is exactly 0: WOW
\* for the prior week, YOY for the prior year, YOY YTD for the prior YTD.
C8_ZeroPriorGivesZeroGrowth ==
    (weekly.called /\ weekly.loaded) =>
        /\ ~weekly.raised
        /\ Len(weekly.rows) = 1 + Len(weekly.shops)
        /\ \A i \in 1..Len(weekly.rows) :
              LET row == weekly.rows[i]
              IN  /\ ~row.WOW.err /\ ~row.YOY.err /\ ~row.YOYYTD.err
                  /\ row.WOW.den # 0 /\ row.YOY.den # 0 /\ row.YOYYTD.den # 0
                  /\ row.PriorWeek[2] = 0 => row.WOW = Zero
                  /\ row.PriorYear[2] = 0 => row.YOY = Zero
                  /\ row.PriorYTD[2] = 0 => row.YOYYTD = Zero

\* a report with a storefront row whose three prior totals are 0 while its
\* week and its year to date have sales
C8_Witness ==
    /\ weekly.called
    /\ ~weekly.raised
    /\ \E i \in 2..Len(weekly.rows) :
          LET row == weekly.rows[i]
          IN  /\ row.PriorWeek[2] = 0 /\ row.PriorYear[2] = 0
              /\ row.PriorYTD[2] = 0
              /\ row.LastWeek[2] > 0 /\ row.YTD[2] > 0
              /\ row.WOW = Zero /\ row.YOY = Zero /\ row.YOYYTD = Zero

\* the last day of the month before that of a calendar date
EndOfPreviousMonth(dt) ==
    IF dt[2] > 1 THEN <<dt[1], dt[2] - 1, DaysInMonth(dt[1], dt[2] - 1)>>
    ELSE <<dt[1] - 1, 12, 31>>

RECURSIVE DaysBack(_, _)
\* the calendar date k days before a calendar date, counted back through
\* the months
DaysBack(dt, k) ==
    IF k < dt[3] THEN <<dt[1], dt[2], dt[3] - k>>
    ELSE DaysBack(EndOfPreviousMonth(dt), k - dt[3])

\* a pair of calendar dates, the first not after the second
IsDateRange(w) ==
    IsCalendarDate(w[1]) /\ IsCalendarDate(w[2]) /\ DateLE(w[1], w[2])

\* C9: the periods of a weekly report on the anchor [ws, we] are date ranges
\* of the calendar: the prior week 7 days back, the prior year 365 days
\* back, the last 4 weeks from 28 days before ws to we, the year to date
\* from 1 January of the year of ws to we, the prior year to date from
\* 1 January of the year before to the month and day of we in that year.
C9_DerivedWindows ==
    (weekly.called /\ ~weekly.raised) =>
        LET ws == weekly.anchor[1]
            we == weekly.anchor[2]
            p == weekly.periods
        IN  /\ p.prior_week = <<DaysBack(ws, 7), DaysBack(we, 7)>>
            /\ p.prior_year = <<DaysBack(ws, 365), DaysBack(we, 365)>>
            /\ p.last_4_weeks = <<DaysBack(ws, 28), we>>
            /\ p.ytd = <<<<ws[1], 1, 1>>, we>>
            /\ p.prior_ytd = <<<<ws[1] - 1, 1, 1>>,
                               <<ws[1] - 1, we[2], we[3]>>>>
            /\ \A w \in {p.prior_week, p.prior_year, p.last_4_weeks, p.ytd,
                         p.prior_ytd} : IsDateRange(w)

RECURSIVE SumBetween(_, _, _)
\* the total of the rows dated from day lo to day hi of the calendar
SumBetween(rows, lo, hi) ==
    IF rows = <<>> THEN 0
    ELSE (IF lo <= ToOrdinal(Head(rows).date)
               /\ ToOrdinal(Head(rows).date) <= hi
          THEN Head(rows).quantity * Head(rows).price ELSE 0)
             + SumBetween(Tail(rows), lo, hi)

\* the dataset behind row i of the weekly report
ChannelData(i) ==
    IF i = 1 THEN weekly.amazon ELSE weekly.shops[i - 1]

\* C10: in each row of a weekly report whose channel sold something in the
\* week 7 days before the anchor week, WOW is the fraction (current - prior)
\* / prior of the totals of the records dated in the anchor week and in the
\* week before, not scaled: WOW * prior = current - prior.
C10_WowIsRawRatio ==
    (weekly.called /\ ~weekly.raised) =>
        \A i \in 1..Len(weekly.rows) :
            LET lo == ToOrdinal(weekly.anchor[1])
                hi == ToOrdinal(weekly.anchor[2])
                cur == SumBetween(ChannelData(i), lo, hi)
                prior == SumBetween(ChannelData(i), lo - 7, hi - 7)
                wow == weekly.rows[i].WOW
            IN  prior > 0 =>
                    /\ ~wow.err
                    /\ wow.den > 0
                    /\ wow.num * prior = wow.den * (cur - prior)

\* the AMAZON row of a report on marketplace records that total 5 units in
\* the anchor week for 4 in the week before: WOW is 1/4
C10_Witness ==
    /\ weekly.called
    /\ ~weekly.raised
    /\ weekly.rows[1].Platform = <<"AMAZON">>
    /\ weekly.rows[1].PriorWeek[2] > 0
    /\ 4 * weekly.rows[1].LastWeek[2] = 5 * weekly.rows[1].PriorWeek[2]
    /\ weekly.rows[1].WOW = [err |-> FALSE, num |-> 1, den |-> 4]


(***************************************************************************)
(* Properties of calculate_sales (specification SpecSales).                 *)
(***************************************************************************)
\* C11: calculate_sales gives the total of exactly the records dated from
\* the start to the end of the window, both days included, and for two
\* windows of which the second starts the day after the first ends, the sum
\* over the window that spans them is the sum over the first plus the sum
\* over the second.
C11_WindowSumInclusiveAdditive ==
    sales_call.called =>
        LET c == sales_call
        IN  /\ c.sum_a = SumBetween(c.data, ToOrdinal(c.a[1]),
                                    ToOrdinal(c.a[2]))
            /\ c.sum_b = SumBetween(c.data, ToOrdinal(c.b[1]),
                                    ToOrdinal(c.b[2]))
            /\ (/\ IsDateRange(c.a) /\ IsDateRange(c.b)
                /\ ToOrdinal(c.b[1]) = ToOrdinal(c.a[2]) + 1)
                   => c.sum_u = c.sum_a + c.sum_b

\* a record dated on the last day of February and one on the first of
\* March, summed over the window that ends on the first, the window that
\* starts on the second, and the window that spans both
C11_Witness ==
    /\ sales_call.called
    /\ Len(sales_call.data) = 2
    /\ sales_call.data[1].date = <<2024, 2, 29>>
    /\ sales_call.data[2].date = <<2024, 3, 1>>
    /\ sales_call.a = <<<<2024, 2, 28>>, <<2024, 2, 29>>>>
    /\ sales_call.b = <<<<2024, 3, 1>>, <<2024, 3, 2>>>>
    /\ sales_call.sum_a = sales_call.data[1].total
    /\ sales_call.sum_b = sales_call.data[2].total
    /\ sales_call.sum_u = sales_call.sum_a + sales_call.sum_b


(***************************************************************************)
(* Properties of the report builders (specification SpecReports).           *)
(***************************************************************************)
\* the six totals of a row of the weekly report are all 0
ZeroTotals(row) ==
    /\ row.LastWeek = Money(0) /\ row.PriorWeek = Money(0)
    /\ row.PriorYear = Money(0) /\ row.Last4Weeks = Money(0)
    /\ row.YTD = Money(0) /\ row.PriorYTD = Money(0)

\* C12: a report builder called on loaded data raises nothing, and for a
\* channel whose dataset is empty it reports zero: quantity 0 in every row
\* of the rate-of-sale report, total 0 for every window of the channel's
\* row of the weekly report, revenue 0 in the dashboard.
C12_EmptyChannelReportsZero ==
    /\ (sales_rate.called /\ sales_rate.loaded) =>
           /\ ~sales_rate.raised
           /\ \A i \in 1..Len(sales_rate.rows) :
                 LET row == sales_rate.rows[i]
                     shops == sales_rate.shops
                 IN  /\ sales_rate.amazon = <<>> => row.QtyAmazon = 0
                     /\ shops[1] = <<>> => row.QtyShopify1 = 0
                     /\ (Len(shops) > 1 /\ shops[2] = <<>>)
                            => row.QtyShopify2 = <<0>>
    /\ (weekly.called /\ weekly.loaded) =>
           /\ ~weekly.raised
           /\ weekly.amazon = <<>> => ZeroTotals(weekly.rows[1])
           /\ \A i \in 1..Len(weekly.shops) :
                 weekly.shops[i] = <<>> => ZeroTotals(weekly.rows[i + 1])
    /\ (dashboard.called /\ dashboard.loaded) =>
           /\ ~dashboard.raised
           /\ dashboard.amazon = <<>> => dashboard.row.ventes_amazon = 0
           /\ dashboard.shops[1] = <<>> => dashboard.row.ventes_shopify1 = 0
           /\ (Len(dashboard.shops) > 1 /\ dashboard.shops[2] = <<>>)
                  => dashboard.row.ventes_shopify2 = 0

\* the three reports built on an empty marketplace dataset, a first
\* storefront with a sale and an empty second storefront
C12_Witness ==
    /\ sales_rate.called /\ weekly.called /\ dashboard.called
    /\ ~sales_rate.raised /\ ~weekly.raised /\ ~dashboard.raised
    /\ amazon_data = Some(<<>>)
    /\ Len(shopify_data) = 2
    /\ shopify_data[1] # <<>>
    /\ shopify_data[2] = <<>>
    /\ dashboard.row.ventes_amazon = 0
    /\ dashboard.row.ventes_shopify1 > 0
    /\ dashboard.row.ventes_shopify2 = 0
    /\ ZeroTotals(weekly.rows[1]) /\ ZeroTotals(weekly.rows[3])
    /\ weekly.rows[2].LastWeek[2] > 0
    /\ \A i \in 1..Len(sales_rate.rows) :
          sales_rate.rows[i].QtyAmazon = 0
              /\ sales_rate.rows[i].QtyShopify2 = <<0>>
    /\ \E i \in 1..Len(sales_rate.rows) :
          sales_rate.rows[i].QtyShopify1 > 0


(***************************************************************************)
(* Properties of the channels of the weekly report (specification           *)
(* SpecChannels).                                                           *)
(***************************************************************************)
\* the storefronts the processor has fetched data of
Storefronts ==
    {fetched[i] : i \in 1..Len(fetched)}

\* C13: a weekly report built on the data the processor holds has one
\* AMAZON row, then the rows SHOPIFY1, SHOPIFY2, ..., one for each
\* storefront the data was fetched of, whatever fetches and runs came
\* before.
C13_OneRowPerChannel ==
    (weekly.called /\ ~weekly.raised /\ weekly.shops = shopify_data) =>
        /\ weekly.rows[1].Platform = <<"AMAZON">>
        /\ \A i \in 2..Len(weekly.rows) :
              weekly.rows[i].Platform = <<"SHOPIFY", i - 1>>
        /\ Len(weekly.rows) = 1 + Cardinality(Storefronts)


(***************************************************************************)
(* Properties of the sales records (specification SpecReports).             *)
(***************************************************************************)
\* the datasets the processor holds
HeldDatasets ==
    {shopify_data[i] : i \in 1..Len(shopify_data)}
        \cup (IF amazon_data.isNone THEN {} ELSE {amazon_data.df})

\* C14: every record the processor holds has a quantity in the naturals, a
\* price that is not negative and total = quantity * price; and no step
\* changes a held record: a storefront dataset stays as it was appended,
\* and the marketplace dataset changes only when a fetch replaces it.
C14_TotalIsQuantityTimesPrice ==
    /\ [](\A d \in HeldDatasets : \A i \in 1..Len(d) :
             /\ d[i].quantity \in Nat
             /\ d[i].price >= 0
             /\ d[i].total = d[i].quantity * d[i].price)
    /\ [][/\ \A i \in 1..Len(shopify_data) :
               i <= Len(shopify_data') /\ shopify_data'[i] = shopify_data[i]
          /\ amazon_data' # amazon_data =>
                 /\ last_fetch'.channel = "amazon"
                 /\ ~last_fetch'.raised
                 /\ last_fetch'.amazon = amazon_data]_vars

\* the three reports built on a marketplace record and a storefront record
\* of more than one unit each
C14_Witness ==
    /\ sales_rate.called /\ weekly.called /\ dashboard.called
    /\ ~amazon_data.isNone
    /\ Len(amazon_data.df) = 1
    /\ amazon_data.df[1].quantity > 1
    /\ amazon_data.df[1].total = amazon_data.df[1].quantity * 4999
    /\ Len(shopify_data) >= 1
    /\ Len(shopify_data[1]) = 1
    /\ shopify_data[1][1].quantity > 1
    /\ shopify_data[1][1].total = shopify_data[1][1].quantity * 10000


(***************************************************************************)
(* Properties of generate_sales_rate_report (specification SpecReports).    *)
(***************************************************************************)
\* whether the characters of product stand in name, one after the other
LiteralContains(name, product) ==
    \E i \in 1..(Len(name) - Len(product) + 1) :
        SubSeq(name, i, i + Len(product) - 1) = product

\* the units of the records of a dataset whose name holds the product
LiteralQty(df, product) ==
    SumQuantity(SelectSeq(df,
        LAMBDA r : LiteralContains(r.product_name, product)))

\* C15: in each row of the rate-of-sale report the quantity of a channel is
\* the sum of the quantities of exactly the records of the channel whose
\* product_name holds the row's product as a literal substring, each record
\* counted under every product it holds.
C15_LiteralSubstringMatch ==
    (sales_rate.called /\ ~sales_rate.raised) =>
        /\ Len(sales_rate.rows) = Len(sales_rate.products)
        /\ \A i \in 1..Len(sales_rate.rows) :
              LET row == sales_rate.rows[i]
                  product == sales_rate.products[i]
                  shops == sales_rate.shops
              IN  /\ row.ProductName = product
                  /\ row.QtyAmazon = LiteralQty(sales_rate.amazon, product)
                  /\ row.QtyShopify1 = LiteralQty(shops[1], product)
                  /\ Len(shops) > 1 =>
                         row.QtyShopify2 = <<LiteralQty(shops[2], product)>>


\* the records of a dataset dated within a range, both ends included
DatedWithin(df, range) ==
    SelectSeq(df, LAMBDA r : InWindow(r, range))

\* C16: the rate-of-sale report asked for a date range counts, for each
\* product and channel, the records of the channel dated within the range
\* and no other: it is the report of the data with every record outside
\* the range left out.
C16_RequestedRangeOnly ==
    (sales_rate.called /\ ~sales_rate.raised) =>
        \A i \in 1..Len(sales_rate.rows) :
            LET row == sales_rate.rows[i]
                range == sales_rate.range
                shops == sales_rate.shops
            IN  /\ row.QtyAmazon =
                       QtySold(DatedWithin(sales_rate.amazon, range),
                               row.ProductName)
                /\ row.QtyShopify1 =
                       QtySold(DatedWithin(shops[1], range), row.ProductName)
                /\ Len(shops) > 1 =>
                       row.QtyShopify2 =
                           <<QtySold(DatedWithin(shops[2], range),
                                     row.ProductName)>>


(***************************************************************************)
(* Properties of create_dashboard_data (specification SpecReports).         *)
(***************************************************************************)
RECURSIVE SumOfTotals(_)
\* the revenue of a list of datasets
SumOfTotals(dfs) ==
    IF dfs = <<>> THEN 0 ELSE SumTotal(Head(dfs)) + SumOfTotals(Tail(dfs))

\* C17: ventes_totales of the dashboard is the revenue of the marketplace
\* dataset plus the revenue of every dataset of shopify_data, however many
\* there are.
C17_GrandTotalCoversEveryChannel ==
    (dashboard.called /\ ~dashboard.raised) =>
        dashboard.row.ventes_totales =
            SumTotal(dashboard.amazon) + SumOfTotals(dashboard.shops)


(***************************************************************************)
(* Properties of the fetches (specification SpecFetch).                     *)
(***************************************************************************)
\* C18: after a fetch, the data the processor holds is what it held before
\* when the fetch raised; after a storefront fetch that returned, it is
\* that with the returned dataset appended at the end of shopify_data;
\* after a marketplace fetch that returned, it is that with amazon_data
\* replaced by the returned dataset.
C18_FetchFrame ==
    last_fetch.called =>
        LET f == last_fetch
        IN  /\ sku_mapping = f.mapping
            /\ f.raised =>
                   amazon_data = f.amazon /\ shopify_data = f.shops
            /\ (f.channel = "shopify" /\ ~f.raised) =>
                   /\ amazon_data = f.amazon
                   /\ Len(shopify_data) = Len(f.shops) + 1
                   /\ SubSeq(shopify_data, 1, Len(f.shops)) = f.shops
                   /\ shopify_data[Len(shopify_data)] = f.returned
            /\ (f.channel = "amazon" /\ ~f.raised) =>
                   /\ amazon_data = Some(f.returned)
                   /\ shopify_data = f.shops

\* a storefront fetch that raised on the HTTP call while the processor held
\* a marketplace dataset and a storefront dataset with records
C18_Witness ==
    /\ last_fetch.called
    /\ last_fetch.channel = "shopify"
    /\ last_fetch.raised
    /\ credentials.shopify = "dict"
    /\ ~amazon_data.isNone
    /\ amazon_data.df # <<>>
    /\ Len(shopify_data) = 1
    /\ shopify_data[1] # <<>>
    /\ shopify_data = last_fetch.shops


(***************************************************************************)
(* Properties of the tab after an export (specification SpecPublish).       *)
(***************************************************************************)
\* what the tab of the last export holds, and the cells of its report
ExportedTabCells ==
    tabs[last_export.tab].cells

ExportedReportCells ==
    CellsOf(ValuesOf(last_export.df))

\* the tab holds what it held before the call, or nothing, or exactly the
\* header and rows of the report
OneOfThreeStates ==
    \/ ExportedTabCells = last_export.before.cells
    \/ ExportedTabCells = {}
    \/ ExportedTabCells = ExportedReportCells

\* C19 as stated: after a call of export_to_google_sheets the tab holds its
\* contents from before the call, or nothing, or exactly the header and
\* rows of the report, and after a call that returned False it does not
\* hold the report.
C19_TabStatesAsStated ==
    last_export.called =>
        /\ OneOfThreeStates
        /\ ~last_export.ret =>
               ~(ExportedReportCells # {}
                    /\ ExportedTabCells = ExportedReportCells)

\* C19, amended: after a call of export_to_google_sheets the tab holds its
\* contents from before the call, or nothing, or exactly the header and
\* rows of the report; after a call that returned False it holds its
\* contents from before the call or nothing, and so the report only when
\* it held that report already.
C19_TabInOneOfThreeStates ==
    last_export.called =>
        /\ OneOfThreeStates
        /\ ~last_export.ret =>
               \/ ExportedTabCells = last_export.before.cells
               \/ ExportedTabCells = {}

\* an export of a table with rows that returned False because the update
\* failed, onto a tab that held other values: the tab is left empty
C19_Witness ==
    /\ last_export.called
    /\ ~last_export.ret
    /\ last_export.failAt = "update"
    /\ last_export.df.rows # <<>>
    /\ last_export.before.cells # {}
    /\ last_export.before.cells # ExportedReportCells
    /\ tabs[last_export.tab].exists
    /\ ExportedTabCells = {}

=============================================================================
